---- MODULE Spec2Model ----
(***************************************************************************)
(* Model of ml_tto: the image projection fit with validation               *)
(* (ImageProjectionFit._fit_image), its recursive refinement               *)
(* (RecursiveImageProjectionFit._fit_image), the smoothing set-up of the   *)
(* projection fit (MLProjectionFit.model_setup) and the HDF5 saver         *)
(* (H5Saver).                                                              *)
(*                                                                         *)
(* Floating point values are records [nan, v]: either NaN or a number.    *)
(* Positions and sizes (mean, sigma, centroid, rms_size) are counted in    *)
(* 1/Scale of a pixel, so that the integer cast of the bounding box is a   *)
(* real truncation.  Amplitude, offset and noise are in intensity units.   *)
(* The 1-d fit (ProjectionFit.fit_projection), the model's forward         *)
(* function and scipy's gaussian_filter1d are library code: the fit and    *)
(* the residual noise are nondeterministic choices over small sets, the    *)
(* filter is kept as a symbolic application.                               *)
(***************************************************************************)
EXTENDS Integers, Sequences, FiniteSets, TLC

VARIABLES
    image,                  \* the image handed to RecursiveImageProjectionFit._fit_image
    relative_filter_size,   \* MLProjectionFit.relative_filter_size, in 1/RDen
    pc,                     \* position in the call
    pass,                   \* 1: coarse fit, 2: fit of the cropped image
    cur,                    \* the image argument of the running base _fit_image
    x_projection, y_projection,
    x_parameters, y_parameters,
    profile_data,           \* projection_fit.model.profile_data
    i,                      \* loop index of the validation loop
    results,                \* the ImageProjectionFitResult objects, by creation
    fresult,                \* index in results of the pass-1 result (0: none)
    fresult0,               \* the pass-1 result as it was constructed
    base0,                  \* the pass-2 result as the base fit constructed it
    bbox,                   \* <<>> or << <<x0, y0>>, <<x1, y1>> >>
    cropped_image,          \* <<>> or <<image>>
    calls,                  \* number of calls of the base _fit_image
    fitted,                 \* <<x, y>>: the parameters as fit_projection returned them
    noise_std,              \* <<x, y>>: noise_std of the validation of each axis
    ret,                    \* index in results of the returned object (0: none)
    \* two concurrent fit_projection calls
    c_shared,               \* TRUE: both calls use one fitter/model instance
    c_projection,           \* the projection each call is given
    c_pc,                   \* position of each call
    c_profile,              \* model.profile_data of each model instance
    c_seen,                 \* the profile_data the fit of each call read
    \* H5Saver
    h_pc,
    h_data,                 \* the dictionary given to save_to_h5
    h_file,                 \* the root group of the file
    h_loaded                \* what load_from_h5 returned

pvars == <<image, relative_filter_size, pc, pass, cur, x_projection, y_projection,
          x_parameters, y_parameters, profile_data, i, results, fresult,
          fresult0, base0, bbox, cropped_image, calls, fitted, noise_std, ret>>
cvars == <<c_shared, c_projection, c_pc, c_profile, c_seen>>
hvars == <<h_pc, h_data, h_file, h_loaded>>
vars == <<pvars, cvars, hvars>>

----------------------------------------------------------------------------
(* Bounds of the model *)

MaxRows == 3
MaxCols == 4
Scale == 2

(* Program constants *)
signal_to_noise_threshold == 4
max_sigma_to_image_size_ratio == 2
n_stds == 4
RDen == 100

RelativeFilterSizes == {0, 50}     \* 0.0 (the default), 0.5

(* What the external fit may return, and the residual noise *)
Amplitudes == {2, 4}
Means == {4, 6}
Sigmas == {1, 4}
Offsets == {0}
NoiseStds == {0, 1}

----------------------------------------------------------------------------
(* Floating point *)

NaN == [nan |-> TRUE, v |-> 0]
F(n) == [nan |-> FALSE, v |-> n]
IsNaN(a) == a.nan

\* a < b, a > b: every comparison with NaN is False
Lt(a, b) == ~a.nan /\ ~b.nan /\ a.v < b.v
Gt(a, b) == ~a.nan /\ ~b.nan /\ a.v > b.v
Add(a, b) == IF a.nan \/ b.nan THEN NaN ELSE F(a.v + b.v)
Times(k, a) == IF a.nan THEN NaN ELSE F(k * a.v)

\* astype(int) of n/Scale: truncation toward zero
Trunc(n) == IF n >= 0 THEN n \div Scale ELSE -((-n) \div Scale)
Clip(n, lo, hi) == IF n < lo THEN lo ELSE IF n > hi THEN hi ELSE n
Min(a, b) == IF a < b THEN a ELSE b

RECURSIVE SumSeq(_)
SumSeq(s) == IF s = <<>> THEN 0 ELSE Head(s) + SumSeq(Tail(s))

----------------------------------------------------------------------------
(* Images: [nrows, ncols, px], px a sequence of nrows rows of ncols samples *)

MkImage(nr, nc, bg) ==
    [nrows |-> nr, ncols |-> nc,
     px |-> [r \in 1..nr |-> [c \in 1..nc |-> bg + ((r + c) % 2)]]]

Images == {MkImage(nr, nc, 1) : nr \in 1..MaxRows, nc \in 1..MaxCols}

\* np.sum(image, axis=0): one sum per column
XProjection(img) ==
    [c \in 1..img.ncols |-> SumSeq([r \in 1..img.nrows |-> img.px[r][c]])]
\* np.sum(image, axis=1): one sum per row
YProjection(img) ==
    [r \in 1..img.nrows |-> SumSeq(img.px[r])]
\* image.sum()
TotalIntensity(img) == SumSeq(YProjection(img))

\* image[r0:r1, c0:c1] for bounds >= 0: a slice stops at the array's end
Slice(img, r0, r1, c0, c1) ==
    LET a == Min(r0, img.nrows)
        b == Min(r1, img.nrows)
        c == Min(c0, img.ncols)
        d == Min(c1, img.ncols)
        nr == IF b > a THEN b - a ELSE 0
        nc == IF d > c THEN d - c ELSE 0
    IN [nrows |-> nr, ncols |-> nc,
        px |-> [r \in 1..nr |-> [k \in 1..nc |-> img.px[a + r][c + k]]]]

----------------------------------------------------------------------------
(* Arrays handed to the 1-d fit: the samples, and the standard deviation   *)
(* of the Gaussian filter applied to them (0: none applied).               *)

Raw(samples) == [samples |-> samples, gaussian_sigma |-> 0]
\* scipy.ndimage.gaussian_filter1d(data, sigma), kept symbolic; a filter applied
\* to already filtered data does not occur
GaussianFilter1d(data, sigma) == [samples |-> data.samples, gaussian_sigma |-> sigma]
ArrayLen(a) == Len(a.samples)
EmptyArray == Raw(<<>>)

\* (a bug to compare with: the width rounded up instead of truncated)
FilterSize_RoundedUp(projection_data, r) ==
    (ArrayLen(projection_data) * r + RDen - 1) \div RDen

\* int(len(projection_data) * self.relative_filter_size)
FilterSize(projection_data, r) == (ArrayLen(projection_data) * r) \div RDen

\* MLProjectionFit.model_setup: what model.profile_data holds afterwards, and
\* what the caller's array holds afterwards
ModelSetup(projection_data, r) ==
    LET filter_size == FilterSize(projection_data, r)
    IN [profile_data |-> IF filter_size > 0
                         THEN GaussianFilter1d(projection_data, filter_size)
                         ELSE projection_data,
        projection_data |-> projection_data]

----------------------------------------------------------------------------
(* Fit parameters and their validation *)

ParamNames == {"amplitude", "mean", "sigma", "offset"}
NoParams == [name \in ParamNames |-> NaN]

\* what fit_projection may return
FitOutputs ==
    {[name \in ParamNames |->
         CASE name = "amplitude" -> F(a)
           [] name = "mean" -> F(m)
           [] name = "sigma" -> F(s)
           [] OTHER -> F(o)] :
       a \in Amplitudes, m \in Means, s \in Sigmas, o \in Offsets}

\* np.std(model.forward(x, params) - projection): NaN for an empty
\* projection, 0 for a projection of one sample (the deviation of a single
\* residual from its own mean), otherwise whatever the residuals give
NoiseOutputs(projection) ==
    IF ArrayLen(projection) = 0 THEN {NaN}
    ELSE IF ArrayLen(projection) = 1 THEN {F(0)}
    ELSE {F(n) : n \in NoiseStds}

\* for name in params.keys(): params[name] = np.nan
Rejected(params) == [name \in DOMAIN params |-> NaN]

\* params["amplitude"] < noise_std * self.signal_to_noise_threshold
LowAmplitude(params, noise) ==
    Lt(params["amplitude"], Times(signal_to_noise_threshold, noise))
\* self.max_sigma_to_image_size_ratio * params["sigma"] > len(projections[i])
TooBig(params, projection) ==
    Gt(Times(max_sigma_to_image_size_ratio, params["sigma"]),
       F(ArrayLen(projection) * Scale))

\* (a bug to compare with: only the parameter a rule looked at is set to NaN)
ValidateParameters_OnlyOffending(params, noise, projection) ==
    IF LowAmplitude(params, noise) THEN [params EXCEPT !["amplitude"] = NaN]
    ELSE IF TooBig(params, projection) THEN [params EXCEPT !["sigma"] = NaN]
    ELSE params

\* one iteration of the validation loop
ValidateParameters(params, noise, projection) ==
    IF LowAmplitude(params, noise) THEN Rejected(params)
    ELSE IF TooBig(params, projection) THEN Rejected(params)
    ELSE params

\* ImageProjectionFitResult(...)
MakeResult(xp, yp, img) ==
    [centroid |-> <<xp["mean"], yp["mean"]>>,
     rms_size |-> <<xp["sigma"], yp["sigma"]>>,
     total_intensity |-> TotalIntensity(img),
     x_projection_fit_parameters |-> xp,
     y_projection_fit_parameters |-> yp,
     image |-> img]

----------------------------------------------------------------------------
(* The bounding box of the refinement *)

\* np.array([-1 * rms_size * n_stds + centroid, rms_size * n_stds + centroid]).astype(int)
RawBBox(rms_size, centroid) ==
    << <<Trunc(centroid[1].v - n_stds * rms_size[1].v),
         Trunc(centroid[2].v - n_stds * rms_size[2].v)>>,
       <<Trunc(centroid[1].v + n_stds * rms_size[1].v),
         Trunc(centroid[2].v + n_stds * rms_size[2].v)>> >>

\* np.clip(bbox, 0, image.shape[0])
ClipBBox(b, img) ==
    [k \in 1..2 |-> [j \in 1..2 |-> Clip(b[k][j], 0, img.nrows)]]

BBox(rms_size, centroid, img) == ClipBBox(RawBBox(rms_size, centroid), img)

\* image[bbox[0][1] : bbox[1][1], bbox[0][0] : bbox[1][0]]
Crop(img, b) == Slice(img, b[1][2], b[2][2], b[1][1], b[2][1])

\* (a bug to compare with: np.all in place of np.any)
AnyNaN_All(rms_size) == IsNaN(rms_size[1]) /\ IsNaN(rms_size[2])

\* np.any(np.isnan(rms_size))
AnyNaN(rms_size) == IsNaN(rms_size[1]) \/ IsNaN(rms_size[2])

\* (a bug to compare with: the offset is added to rms_size as well)
AddOffset_AlsoSize(result, centroid) ==
    [result EXCEPT !.centroid = <<Add(result.centroid[1], centroid[1]),
                                  Add(result.centroid[2], centroid[2])>>,
                   !.rms_size = <<Add(result.rms_size[1], centroid[1]),
                                  Add(result.rms_size[2], centroid[2])>>]

\* (a bug to compare with: a NaN centroid counts as 0 in the sum)
AddOffset_NaNAsZero(result, centroid) ==
    [result EXCEPT !.centroid =
        <<IF IsNaN(result.centroid[1]) THEN centroid[1]
          ELSE Add(result.centroid[1], centroid[1]),
          IF IsNaN(result.centroid[2]) THEN centroid[2]
          ELSE Add(result.centroid[2], centroid[2])>>]

\* result.centroid += centroid
AddOffset(result, centroid) ==
    [result EXCEPT !.centroid = <<Add(result.centroid[1], centroid[1]),
                                  Add(result.centroid[2], centroid[2])>>]

----------------------------------------------------------------------------
(* The parts of the state a specification does not use *)

Threads == {1, 2}

ConcIdle ==
    /\ c_shared = FALSE
    /\ c_projection = [t \in Threads |-> EmptyArray]
    /\ c_pc = [t \in Threads |-> "idle"]
    /\ c_profile = [m \in Threads |-> EmptyArray]
    /\ c_seen = [t \in Threads |-> EmptyArray]

EmptyGroup(track_order) ==
    [kind |-> "group", track_order |-> track_order, attrs |-> <<>>, members |-> <<>>]

H5Idle ==
    /\ h_pc = "idle"
    /\ h_data = <<>>
    /\ h_file = EmptyGroup(FALSE)
    /\ h_loaded = <<>>

----------------------------------------------------------------------------
(* RecursiveImageProjectionFit._fit_image, step by step *)

PipelineInit ==
    /\ image \in Images
    /\ relative_filter_size \in RelativeFilterSizes
    /\ pc = "start"
    /\ pass = 0
    /\ cur = image
    /\ x_projection = EmptyArray
    /\ y_projection = EmptyArray
    /\ x_parameters = NoParams
    /\ y_parameters = NoParams
    /\ profile_data = EmptyArray
    /\ i = 0
    /\ results = <<>>
    /\ fresult = 0
    /\ fresult0 = <<>>
    /\ base0 = <<>>
    /\ bbox = <<>>
    /\ cropped_image = <<>>
    /\ calls = 0
    /\ fitted = <<NoParams, NoParams>>
    /\ noise_std = <<NaN, NaN>>
    /\ ret = 0

\* fresult = super()._fit_image(image): entry, and the two projections
CallCoarseFit ==
    /\ pc = "start"
    /\ pass' = 1
    /\ cur' = image
    /\ calls' = calls + 1
    /\ x_projection' = Raw(XProjection(image))
    /\ y_projection' = Raw(YProjection(image))
    /\ pc' = "fit_x"
    /\ UNCHANGED <<image, relative_filter_size, x_parameters, y_parameters,
                   profile_data, i, results, fresult, fresult0, base0, bbox,
                   cropped_image, ret, fitted, noise_std>>
    /\ UNCHANGED <<cvars, hvars>>

\* x_parameters = self.projection_fit.fit_projection(x_projection)
FitX ==
    /\ pc = "fit_x"
    /\ LET setup == ModelSetup(x_projection, relative_filter_size)
       IN /\ profile_data' = setup.profile_data
          /\ x_projection' = setup.projection_data
    /\ x_parameters' \in FitOutputs
    /\ fitted' = [fitted EXCEPT ![1] = x_parameters']
    /\ pc' = "fit_y"
    /\ UNCHANGED <<image, relative_filter_size, pass, cur, y_projection,
                   y_parameters, i, results, fresult, fresult0, base0, bbox,
                   cropped_image, calls, ret, noise_std>>
    /\ UNCHANGED <<cvars, hvars>>

\* y_parameters = self.projection_fit.fit_projection(y_projection)
FitY ==
    /\ pc = "fit_y"
    /\ LET setup == ModelSetup(y_projection, relative_filter_size)
       IN /\ profile_data' = setup.profile_data
          /\ y_projection' = setup.projection_data
    /\ y_parameters' \in FitOutputs
    /\ fitted' = [fitted EXCEPT ![2] = y_parameters']
    /\ i' = 0
    /\ pc' = "validate"
    /\ UNCHANGED <<image, relative_filter_size, pass, cur, x_projection,
                   x_parameters, results, fresult, fresult0, base0, bbox,
                   cropped_image, calls, ret, noise_std>>
    /\ UNCHANGED <<cvars, hvars>>

\* the library fit fails on a projection without samples: the error propagates
FitRaises ==
    /\ \/ pc = "fit_x" /\ ArrayLen(x_projection) = 0
       \/ pc = "fit_y" /\ ArrayLen(y_projection) = 0
    /\ pc' = "raised"
    /\ UNCHANGED <<image, relative_filter_size, pass, cur, x_projection,
                   y_projection, x_parameters, y_parameters, profile_data, i,
                   results, fresult, fresult0, base0, bbox, cropped_image,
                   calls, ret, fitted, noise_std>>
    /\ UNCHANGED <<cvars, hvars>>

\* one iteration of: for i, params in enumerate([x_parameters, y_parameters])
Validate ==
    /\ pc = "validate"
    /\ i \in {0, 1}
    /\ IF i = 0
       THEN /\ \E n \in NoiseOutputs(x_projection) :
                 /\ noise_std' = [noise_std EXCEPT ![1] = n]
                 /\ x_parameters' = ValidateParameters(x_parameters, n, x_projection)
            /\ UNCHANGED y_parameters
       ELSE /\ \E n \in NoiseOutputs(y_projection) :
                 /\ noise_std' = [noise_std EXCEPT ![2] = n]
                 /\ y_parameters' = ValidateParameters(y_parameters, n, y_projection)
            /\ UNCHANGED x_parameters
    /\ i' = i + 1
    /\ pc' = IF i = 1 THEN "result" ELSE "validate"
    /\ UNCHANGED <<image, relative_filter_size, pass, cur, x_projection,
                   y_projection, profile_data, results, fresult, fresult0,
                   base0, bbox, cropped_image, calls, ret, fitted>>
    /\ UNCHANGED <<cvars, hvars>>

\* result = ImageProjectionFitResult(...); return result
BuildResult ==
    /\ pc = "result"
    /\ LET result == MakeResult(x_parameters, y_parameters, cur)
       IN /\ results' = Append(results, result)
          /\ IF pass = 1
             THEN /\ fresult' = Len(results) + 1
                  /\ fresult0' = <<result>>
                  /\ UNCHANGED base0
                  /\ pc' = "check"
             ELSE /\ base0' = <<result>>
                  /\ UNCHANGED <<fresult, fresult0>>
                  /\ pc' = "offset"
    /\ UNCHANGED <<image, relative_filter_size, pass, cur, x_projection,
                   y_projection, x_parameters, y_parameters, profile_data, i,
                   bbox, cropped_image, calls, ret, fitted, noise_std>>
    /\ UNCHANGED <<cvars, hvars>>

\* if np.any(np.isnan(rms_size)): return fresult
ReturnCoarse ==
    /\ pc = "check"
    /\ AnyNaN(results[fresult].rms_size)
    /\ ret' = fresult
    /\ pc' = "done"
    /\ UNCHANGED <<image, relative_filter_size, pass, cur, x_projection,
                   y_projection, x_parameters, y_parameters, profile_data, i,
                   results, fresult, fresult0, base0, bbox, cropped_image, calls, fitted, noise_std>>
    /\ UNCHANGED <<cvars, hvars>>

\* else: the bounding box, the crop, and the entry of the second base fit
CropAndRefit ==
    /\ pc = "check"
    /\ ~AnyNaN(results[fresult].rms_size)
    /\ LET b == BBox(results[fresult].rms_size, results[fresult].centroid, image)
           cropped == Crop(image, b)
       IN /\ bbox' = b
          /\ cropped_image' = <<cropped>>
          /\ cur' = cropped
          /\ x_projection' = Raw(XProjection(cropped))
          /\ y_projection' = Raw(YProjection(cropped))
    /\ pass' = 2
    /\ calls' = calls + 1
    /\ pc' = "fit_x"
    /\ UNCHANGED <<image, relative_filter_size, x_parameters, y_parameters,
                   profile_data, i, results, fresult, fresult0, base0, ret, fitted, noise_std>>
    /\ UNCHANGED <<cvars, hvars>>

\* result.centroid += centroid; return result
OffsetAndReturn ==
    /\ pc = "offset"
    /\ results' = [results EXCEPT
                     ![Len(results)] = AddOffset(@, results[fresult].centroid)]
    /\ ret' = Len(results)
    /\ pc' = "done"
    /\ UNCHANGED <<image, relative_filter_size, pass, cur, x_projection,
                   y_projection, x_parameters, y_parameters, profile_data, i,
                   fresult, fresult0, base0, bbox, cropped_image, calls, fitted, noise_std>>
    /\ UNCHANGED <<cvars, hvars>>

Init == PipelineInit /\ ConcIdle /\ H5Idle

Next ==
    \/ CallCoarseFit
    \/ FitX
    \/ FitY
    \/ FitRaises
    \/ Validate
    \/ BuildResult
    \/ ReturnCoarse
    \/ CropAndRefit
    \/ OffsetAndReturn

Spec == Init /\ [][Next]_vars

----------------------------------------------------------------------------
(* Two fit_projection calls running concurrently, each on its own         *)
(* projection, on one shared fitter/model instance or on one instance     *)
(* each.  A call is model_setup, which stores the call's data in the      *)
(* model, followed by the library fit, which reads the model's            *)
(* profile_data.                                                          *)

Projections ==
    {Raw(XProjection(img)) : img \in Images} \cup {Raw(YProjection(img)) : img \in Images}

\* the model instance behind self.model of call t
InstanceOf(t) == IF c_shared THEN 1 ELSE t

\* (a bug to compare with: profile_data kept on the class, for all instances)
StoreProfile_ClassLevel(profiles, m, data) == [n \in DOMAIN profiles |-> data]

\* self.model.profile_data = projection_data
StoreProfile(profiles, m, data) == [profiles EXCEPT ![m] = data]

ConcInit ==
    /\ c_shared \in BOOLEAN
    /\ c_projection \in [Threads -> Projections]
    /\ c_pc = [t \in Threads |-> "setup"]
    /\ c_profile = [m \in Threads |-> EmptyArray]
    /\ c_seen = [t \in Threads |-> EmptyArray]

PipelineIdle ==
    /\ image = MkImage(1, 1, 1)
    /\ relative_filter_size \in RelativeFilterSizes
    /\ pc = "idle"
    /\ pass = 0
    /\ cur = image
    /\ x_projection = EmptyArray
    /\ y_projection = EmptyArray
    /\ x_parameters = NoParams
    /\ y_parameters = NoParams
    /\ profile_data = EmptyArray
    /\ i = 0
    /\ results = <<>>
    /\ fresult = 0
    /\ fresult0 = <<>>
    /\ base0 = <<>>
    /\ bbox = <<>>
    /\ cropped_image = <<>>
    /\ calls = 0
    /\ fitted = <<NoParams, NoParams>>
    /\ noise_std = <<NaN, NaN>>
    /\ ret = 0

\* call t runs model_setup on its projection
ConcModelSetup(t) ==
    /\ c_pc[t] = "setup"
    /\ LET setup == ModelSetup(c_projection[t], relative_filter_size)
       IN /\ c_profile' = StoreProfile(c_profile, InstanceOf(t), setup.profile_data)
          /\ c_projection' = [c_projection EXCEPT ![t] = setup.projection_data]
    /\ c_pc' = [c_pc EXCEPT ![t] = "fit"]
    /\ UNCHANGED <<c_shared, c_seen>>
    /\ UNCHANGED <<pvars, hvars>>

\* the fit of call t reads the model's profile_data
ConcFit(t) ==
    /\ c_pc[t] = "fit"
    /\ c_seen' = [c_seen EXCEPT ![t] = c_profile[InstanceOf(t)]]
    /\ c_pc' = [c_pc EXCEPT ![t] = "done"]
    /\ UNCHANGED <<c_shared, c_projection, c_profile>>
    /\ UNCHANGED <<pvars, hvars>>

ConcNext ==
    \/ \E t \in Threads : ConcModelSetup(t)
    \/ \E t \in Threads : ConcFit(t)

InitConc == ConcInit /\ PipelineIdle /\ H5Idle

SpecConc == InitConc /\ [][ConcNext]_vars

----------------------------------------------------------------------------
(* H5Saver.  A Python value is a record tagged with its type; a mapping is *)
(* the sequence of its entries [k, v] in insertion order.  A file is its   *)
(* root group; a group holds its attributes and its members in creation    *)
(* order and whether it tracks that order (otherwise it is iterated by     *)
(* name).                                                                  *)

MaxKeys == 2

\* every Python value has the same fields: its key when it is an entry of a
\* mapping (k), its type (t) and, by type, a bool (b), a number (n), a string
\* (s), the numbers of an array (nums), the elements of a list or the entries
\* of a mapping in insertion order (items)
Blank == [k |-> "", t |-> "none", b |-> FALSE, n |-> 0, s |-> "",
          nums |-> <<>>, items |-> <<>>]
VBool(b) == [Blank EXCEPT !.t = "bool", !.b = b]
VInt(n) == [Blank EXCEPT !.t = "int", !.n = n]
VFloat(n) == [Blank EXCEPT !.t = "float", !.n = n]
VStr(str) == [Blank EXCEPT !.t = "str", !.s = str]
VArray(nums) == [Blank EXCEPT !.t = "ndarray", !.nums = nums]
VList(items) == [Blank EXCEPT !.t = "list", !.items = items]
VDict(entries) == [Blank EXCEPT !.t = "dict", !.items = entries]
Entry(k, v) == [v EXCEPT !.k = k]

\* self.supported_types
SupportedTypes == {"bool", "int", "float"}

\* names in the order HDF5 iterates them when creation order is not tracked
NameOrder == <<"0", "1", "2", "3", "a", "attrs", "b">>
NameRank(name) == CHOOSE n \in 1..Len(NameOrder) : NameOrder[n] = name
\* f"{i}" for the index of a list element
IndexName(n) == NameOrder[n + 1]

\* members and attributes of a group: [k: name, v: group or dataset]
Member(name, node) == [k |-> name, v |-> node]

RECURSIVE InsertByName(_, _)
InsertByName(e, sorted) ==
    IF sorted = <<>> THEN <<e>>
    ELSE IF NameRank(e.k) < NameRank(Head(sorted).k) THEN <<e>> \o sorted
    ELSE <<Head(sorted)>> \o InsertByName(e, Tail(sorted))

RECURSIVE SortByName(_)
SortByName(entries) ==
    IF entries = <<>> THEN <<>>
    ELSE InsertByName(Head(entries), SortByName(Tail(entries)))

\* the order in which attributes and members of a group are iterated
Iterate(group, entries) == IF group.track_order THEN entries ELSE SortByName(entries)

\* a dataset holding the value's data
Dataset(dtype, scalar, val) ==
    [kind |-> "dataset", dtype |-> dtype, scalar |-> scalar,
     b |-> val.b, n |-> val.n, s |-> val.s, nums |-> val.nums]

\* a member (or attribute) of that name, added or replaced
RECURSIVE PutEntry(_, _, _)
PutEntry(entries, name, node) ==
    IF entries = <<>> THEN <<Member(name, node)>>
    ELSE IF Head(entries).k = name THEN <<Member(name, node)>> \o Tail(entries)
    ELSE <<Head(entries)>> \o PutEntry(Tail(entries), name, node)

HasEntry(entries, name) == \E n \in 1..Len(entries) : entries[n].k = name
GetEntry(entries, name) ==
    entries[CHOOSE n \in 1..Len(entries) : entries[n].k = name].v

\* f.create_dataset(key, ...) / f.create_group(key, ...) in group f
AddMember(f, name, node) == [f EXCEPT !.members = PutEntry(@, name, node)]

\* f.create_dataset(f"{key}/{i}", ...): the group key is created on the way,
\* without order tracking, when it is not there yet
AddMemberAtPath(f, key, name, node) ==
    LET parent == IF HasEntry(f.members, key) THEN GetEntry(f.members, key)
                  ELSE EmptyGroup(FALSE)
    IN AddMember(f, key, AddMember(parent, name, node))

\* str(val)
StrOf(val) ==
    CASE val.t = "str" -> val.s
      [] val.t = "int" -> IndexName(val.n)
      [] val.t = "bool" -> IF val.b THEN "True" ELSE "False"
      [] OTHER -> "str"

\* the array h5py makes of a list of supported scalars
ListArray(list) ==
    VArray([n \in 1..Len(list) |->
               IF list[n].t = "bool" THEN (IF list[n].b THEN 1 ELSE 0) ELSE list[n].n])

RECURSIVE RecursiveSave(_, _)
RECURSIVE SaveEntry(_, _, _)
RECURSIVE SaveDictList(_, _, _, _)
RECURSIVE SaveOtherList(_, _, _, _)
RECURSIVE UpdateAttrs(_, _)

\* f.attrs.update(val)
UpdateAttrs(attrs, entries) ==
    IF entries = <<>> THEN attrs
    ELSE LET e == Head(entries)
         IN UpdateAttrs(PutEntry(attrs, e.k,
                                 Dataset(IF e.t = "ndarray" THEN "numeric" ELSE e.t,
                                         e.t # "ndarray", e)),
                        Tail(entries))

\* for i, ele in enumerate(val): group f"{key}/{i}", recursive_save(ele, group)
SaveDictList(key, list, n, f) ==
    IF n > Len(list) THEN f
    ELSE SaveDictList(key, list, n + 1,
            AddMemberAtPath(f, key, IndexName(n - 1),
                            RecursiveSave(list[n].items, EmptyGroup(TRUE))))

\* for i, ele in enumerate(val): dataset f"{key}/{i}" of ele or of str(ele)
SaveOtherList(key, list, n, f) ==
    IF n > Len(list) THEN f
    ELSE SaveOtherList(key, list, n + 1,
            AddMemberAtPath(f, key, IndexName(n - 1),
                            Dataset("str", TRUE, VStr(StrOf(list[n])))))

\* one iteration of: for key, val in d.items()
SaveEntry(key, val, f) ==
    IF key = "attrs" THEN [f EXCEPT !.attrs = UpdateAttrs(@, val.items)]
    ELSE IF val.t = "dict"
         THEN AddMember(f, key, RecursiveSave(val.items, EmptyGroup(TRUE)))
    ELSE IF val.t = "list"
         THEN IF \A n \in 1..Len(val.items) : val.items[n].t \in SupportedTypes
              THEN AddMember(f, key, Dataset("numeric", FALSE, ListArray(val.items)))
              ELSE IF \A n \in 1..Len(val.items) : val.items[n].t = "dict"
              THEN SaveDictList(key, val.items, 1, f)
              ELSE SaveOtherList(key, val.items, 1, f)
    ELSE IF val.t \in SupportedTypes
         THEN AddMember(f, key, Dataset(val.t, TRUE, val))
    ELSE IF val.t = "ndarray"
         THEN AddMember(f, key, Dataset("numeric", FALSE, val))
    ELSE AddMember(f, key, Dataset("str", TRUE, VStr(StrOf(val))))

\* recursive_save(d, f)
RecursiveSave(entries, f) ==
    IF entries = <<>> THEN f
    ELSE RecursiveSave(Tail(entries), SaveEntry(Head(entries).k, Head(entries), f))

\* val[()], bytes decoded
ReadDataset(ds) ==
    IF ds.dtype = "str" THEN VStr(ds.s)
    ELSE IF ds.scalar THEN [Blank EXCEPT !.t = ds.dtype, !.b = ds.b, !.n = ds.n]
    ELSE VArray(ds.nums)

RECURSIVE RecursiveLoad(_)
RECURSIVE LoadMembers(_)

LoadMembers(members) ==
    IF members = <<>> THEN <<>>
    ELSE LET m == Head(members)
         IN <<Entry(m.k, IF m.v.kind = "group" THEN VDict(RecursiveLoad(m.v))
                         ELSE ReadDataset(m.v))>>
            \o LoadMembers(Tail(members))

\* dict(f.attrs)
LoadAttrs(f) ==
    LET attrs == Iterate(f, f.attrs)
    IN VDict([n \in 1..Len(attrs) |-> Entry(attrs[n].k, ReadDataset(attrs[n].v))])

\* recursive_load(f)
RecursiveLoad(f) ==
    (IF f.attrs # <<>> THEN <<Entry("attrs", LoadAttrs(f))>> ELSE <<>>)
    \o LoadMembers(Iterate(f, f.members))

(* The dictionaries saved: up to MaxKeys entries per mapping, two levels *)

Keys == {"a", "b"}
Leaves == {VBool(TRUE), VInt(1), VFloat(2), VArray(<<1, 2>>),
           VList(<<VStr("x"), VStr("y")>>)}
InnerLeaves == {VInt(1), VList(<<VStr("x")>>)}
AttrsValues == {VDict(<<Entry("b", VInt(1))>>)}

EntriesOver(values) ==
    {Entry(k, v) : k \in Keys, v \in values}
        \cup {Entry("attrs", v) : v \in AttrsValues}

DistinctKeys(entries) ==
    \A m, n \in 1..Len(entries) : m # n => entries[m].k # entries[n].k

Mappings(values) ==
    {m \in UNION {[1..n -> EntriesOver(values)] : n \in 1..MaxKeys} : DistinctKeys(m)}

Documents == Mappings(Leaves \cup {VDict(m) : m \in Mappings(InnerLeaves)})

H5Init ==
    /\ h_pc = "new"
    /\ h_data \in Documents
    /\ h_file = EmptyGroup(FALSE)
    /\ h_loaded = <<>>

\* save_to_h5(data, filepath): h5py.File(filepath, "w"), recursive_save(data, file)
SaveToH5 ==
    /\ h_pc = "new"
    /\ h_file' = RecursiveSave(h_data, EmptyGroup(FALSE))
    /\ h_pc' = "saved"
    /\ UNCHANGED <<h_data, h_loaded>>
    /\ UNCHANGED <<pvars, cvars>>

\* load_from_h5(filepath)
LoadFromH5 ==
    /\ h_pc = "saved"
    /\ h_loaded' = RecursiveLoad(h_file)
    /\ h_pc' = "loaded"
    /\ UNCHANGED <<h_data, h_file>>
    /\ UNCHANGED <<pvars, cvars>>

H5Next ==
    \/ SaveToH5
    \/ LoadFromH5

H5PipelineIdle == PipelineIdle /\ relative_filter_size = 0

InitH5 == H5Init /\ H5PipelineIdle /\ ConcIdle

SpecH5 == InitH5 /\ [][H5Next]_vars

----------------------------------------------------------------------------
(* Properties of the validation (ImageProjectionFit._fit_image) *)

AxisParameters(k) == IF k = 1 THEN x_parameters ELSE y_parameters
AxisProjection(k) == IF k = 1 THEN x_projection ELSE y_projection
AllNaNParams(params) == \A name \in DOMAIN params : IsNaN(params[name])

\* the two rejection rules, on what the fit returned for axis k
C1_LowAmplitude(k) ==
    /\ ~IsNaN(fitted[k]["amplitude"])
    /\ ~IsNaN(noise_std[k])
    /\ fitted[k]["amplitude"].v < noise_std[k].v * signal_to_noise_threshold
C1_TooBig(k) ==
    /\ ~IsNaN(fitted[k]["sigma"])
    /\ max_sigma_to_image_size_ratio * fitted[k]["sigma"].v
         > ArrayLen(AxisProjection(k)) * Scale

\* C1: after the validation loop, an axis whose fitted amplitude is below
\* noise_std * signal_to_noise_threshold or whose sigma times
\* max_sigma_to_image_size_ratio exceeds the projection length has every
\* parameter NaN; an axis that breaks neither rule keeps exactly what the fit
\* returned; and validating x leaves y's parameters as the fit returned them.
C1_ValidationPerAxis ==
    /\ pc = "result" =>
         \A k \in 1..2 :
            IF C1_LowAmplitude(k) \/ C1_TooBig(k)
            THEN AllNaNParams(AxisParameters(k))
            ELSE AxisParameters(k) = fitted[k]
    /\ (pc = "validate" /\ i = 1) => y_parameters = fitted[2]

\* x is rejected for its size alone (its amplitude is high enough), y is kept
C1_Witness ==
    /\ pc = "result"
    /\ C1_TooBig(1) /\ ~C1_LowAmplitude(1)
    /\ AllNaNParams(x_parameters)
    /\ ~C1_LowAmplitude(2) /\ ~C1_TooBig(2)
    /\ y_parameters = fitted[2]
    /\ ~IsNaN(y_parameters["mean"])

----------------------------------------------------------------------------
(* Properties of the refinement (RecursiveImageProjectionFit._fit_image) *)

CoarseDone == fresult # 0
CoarseHasNaN == IsNaN(fresult0[1].rms_size[1]) \/ IsNaN(fresult0[1].rms_size[2])
CoarseValid == CoarseDone /\ ~CoarseHasNaN
CoarseInvalid == CoarseDone /\ CoarseHasNaN

\* C2: when the coarse fit has a NaN in rms_size, the call returns the pass-1
\* result object itself, as it was constructed; no bounding box and no crop
\* are computed and the base fit is called once only.
C2_NaNCoarseReturnedUnrefined ==
    CoarseInvalid =>
        /\ pc \in {"check", "done"}
        /\ bbox = <<>>
        /\ cropped_image = <<>>
        /\ calls = 1
        /\ results = fresult0
        /\ pc = "done" => ret = fresult

\* the call has returned with one axis of the coarse fit rejected, the other valid
C2_Witness ==
    /\ pc = "done"
    /\ CoarseInvalid
    /\ ret = fresult
    /\ ~IsNaN(results[ret].rms_size[1])
    /\ IsNaN(results[ret].rms_size[2])

Abs(n) == IF n < 0 THEN -n ELSE n

\* the pass-1 centroid lies in the image and the pass-2 fit found, on axis k,
\* the peak the pass-1 fit found: its mean in the crop's coordinates plus the
\* crop's origin is the pass-1 mean
SamePeak(k) ==
    /\ fresult0[1].centroid[k].v >= 0
    /\ fresult0[1].centroid[k].v <=
          Scale * (IF k = 1 THEN image.ncols ELSE image.nrows)
    /\ ~IsNaN(base0[1].centroid[k])
    /\ base0[1].centroid[k].v + Scale * bbox[1][k] = fresult0[1].centroid[k].v

\* C3: on a valid coarse fit, when the second fit locates the same peak, the
\* returned centroid is within one pixel of the coarse centroid on that axis.
C3_CentroidWithinRounding ==
    (pc = "done" /\ CoarseValid) =>
        \A k \in 1..2 :
           SamePeak(k) =>
              Abs(results[ret].centroid[k].v - fresult0[1].centroid[k].v) <= Scale

\* C4: the x bounds of the bounding box lie in [0, number of columns], the y
\* bounds in [0, number of rows], and each bound is the unclipped bound
\* clipped to its own axis (so the window is kept wherever it is inside the
\* image).
C4_BBoxClippedPerAxis ==
    bbox # <<>> =>
        LET raw == RawBBox(fresult0[1].rms_size, fresult0[1].centroid)
        IN \A k \in 1..2 :
              /\ bbox[k][1] \in 0..image.ncols
              /\ bbox[k][2] \in 0..image.nrows
              /\ bbox[k][1] = Clip(raw[k][1], 0, image.ncols)
              /\ bbox[k][2] = Clip(raw[k][2], 0, image.nrows)

EmptyImage(img) == img.nrows = 0 \/ img.ncols = 0

\* C5: when the crop has no rows or no columns, the second fit is not run
\* and the call returns the pass-1 result.
C5_EmptyCropFallsBack ==
    (cropped_image # <<>> /\ EmptyImage(cropped_image[1])) =>
        /\ calls = 1
        /\ pc \in {"check", "done"}
        /\ pc = "done" => ret = fresult

\* C6: on a valid coarse fit the returned object is the result the base fit
\* built on the cropped image, with the pass-1 centroid added to its centroid
\* and nothing else changed; the pass-1 result is as it was constructed and
\* the crop is the bounding box's window of the unchanged input image.
C6_OnlyCentroidOffset ==
    (pc = "done" /\ CoarseValid) =>
        /\ ret = Len(results)
        /\ ret # fresult
        /\ LET r == results[ret]
               b == base0[1]
               c == fresult0[1].centroid
           IN /\ \A k \in 1..2 :
                    r.centroid[k] =
                       IF IsNaN(b.centroid[k]) THEN NaN ELSE F(b.centroid[k].v + c[k].v)
              /\ r.rms_size = b.rms_size
              /\ r.rms_size = <<x_parameters["sigma"], y_parameters["sigma"]>>
              /\ r.total_intensity = TotalIntensity(cropped_image[1])
              /\ r.x_projection_fit_parameters = x_parameters
              /\ r.y_projection_fit_parameters = y_parameters
              /\ r.image = cropped_image[1]
        /\ results[fresult] = fresult0[1]
        /\ cropped_image[1] = Crop(image, bbox)
        /\ image \in Images

\* a refined result on a crop that is a proper part of the image
C6_Witness ==
    /\ pc = "done"
    /\ CoarseValid
    /\ ret = 2
    /\ ~IsNaN(results[ret].centroid[1])
    /\ ~IsNaN(results[ret].centroid[2])
    /\ results[ret].total_intensity < fresult0[1].total_intensity
    /\ results[ret].total_intensity > 0

\* the parameters of axis k of the pass-2 fit were rejected
Pass2Rejected(k) ==
    AllNaNParams(IF k = 1 THEN base0[1].x_projection_fit_parameters
                 ELSE base0[1].y_projection_fit_parameters)

\* C10: on a valid coarse fit the pass-2 result is returned even when one of
\* its axes was rejected, with NaN centroid and NaN rms_size on that axis;
\* and whatever is returned, a centroid component is NaN exactly when the
\* same rms_size component is.
C10_NaNCentroidIffNaNSize ==
    pc = "done" =>
        /\ \A k \in 1..2 :
              IsNaN(results[ret].centroid[k]) <=> IsNaN(results[ret].rms_size[k])
        /\ CoarseValid =>
              /\ ret # fresult
              /\ results[ret].image = cropped_image[1]
              /\ \A k \in 1..2 :
                    Pass2Rejected(k) =>
                       /\ IsNaN(results[ret].centroid[k])
                       /\ IsNaN(results[ret].rms_size[k])

\* valid coarse fit, pass 2 rejected on x only
C10_Witness ==
    /\ pc = "done"
    /\ CoarseValid
    /\ Pass2Rejected(1)
    /\ ~Pass2Rejected(2)
    /\ IsNaN(results[ret].centroid[1])
    /\ ~IsNaN(results[ret].centroid[2])

----------------------------------------------------------------------------
(* Properties of MLProjectionFit.model_setup *)

\* floor(len * relative_filter_size), relative_filter_size counted in 1/RDen
C7_Width(samples) == (Len(samples) * relative_filter_size) \div RDen

C7_Stored(samples) ==
    /\ C7_Width(samples) = 0 =>
          profile_data = [samples |-> samples, gaussian_sigma |-> 0]
    /\ C7_Width(samples) > 0 =>
          profile_data = [samples |-> samples, gaussian_sigma |-> C7_Width(samples)]

\* C7: after model_setup the model's profile_data is the input itself when
\* floor(len * relative_filter_size) is 0 and the input filtered with that
\* width otherwise; the caller's projection is as it was computed from the
\* image.
C7_FilterWidth ==
    /\ pc = "fit_y" =>
          /\ C7_Stored(XProjection(cur))
          /\ x_projection = Raw(XProjection(cur))
    /\ (pc = "validate" /\ i = 0) =>
          /\ C7_Stored(YProjection(cur))
          /\ y_projection = Raw(YProjection(cur))

\* the projection was smoothed with a width of at least 1
C7_Witness ==
    /\ pc = "fit_y"
    /\ relative_filter_size > 0
    /\ profile_data.gaussian_sigma > 0
    /\ profile_data.samples = XProjection(cur)
    /\ x_projection.gaussian_sigma = 0

----------------------------------------------------------------------------
(* Properties of concurrent fit_projection calls *)

\* the data model_setup stores for call t's projection
C9_Own(t) ==
    [samples |-> c_projection[t].samples,
     gaussian_sigma |-> (Len(c_projection[t].samples) * relative_filter_size) \div RDen]

\* C9: model_setup leaves the call's own (possibly smoothed) data in its
\* model; with one model instance per call the fit of a call always reads the
\* call's own data; with a shared instance it reads its own data or the other
\* call's (the witness: it does read the other's).
C9_ProfileDataRace ==
    \A t \in Threads :
       /\ (c_pc[t] = "fit" /\ \A u \in Threads \ {t} : c_pc[u] = "setup") =>
             c_profile[IF c_shared THEN 1 ELSE t] = C9_Own(t)
       /\ (c_pc[t] = "fit" /\ ~c_shared) => c_profile[t] = C9_Own(t)
       /\ c_pc[t] = "done" =>
             IF c_shared
             THEN \E u \in Threads : c_seen[t] = C9_Own(u)
             ELSE c_seen[t] = C9_Own(t)

\* on a shared instance the fit of a call has read the other call's data
C9_Witness ==
    /\ c_shared
    /\ \E t \in Threads :
          /\ c_pc[t] = "done"
          /\ c_seen[t] # C9_Own(t)
          /\ \E u \in Threads \ {t} : c_seen[t] = C9_Own(u)

----------------------------------------------------------------------------
(* Properties of H5Saver *)

\* C8: what load_from_h5 returns for the file save_to_h5 wrote is the saved
\* dictionary: the same keys in the same order at every level, each with the
\* value saved.
C8_RoundTrip == h_pc = "loaded" => h_loaded = h_data

====
